---- MODULE Spec2Model ----
(***************************************************************************)
(* The room state machine of the collaborative story game: the StoryAgent  *)
(* Durable Object.  The repository holds several near-duplicate revisions  *)
(* of the class; three of them are modelled side by side, selected by the  *)
(* variable `variant`:                                                      *)
(*   "server"   src/src/server.ts        in-memory lock, first-max winner   *)
(*   "agent"    src/src/story-agent.ts   party stats, random tie-break      *)
(*   "part000"  src/unnamed/part_000     persisted isProcessing lock,       *)
(*                                       round-number guard                 *)
(* A handler runs atomically from one `await` to the next; a suspended     *)
(* handler is a continuation record in the bag `pending`, holding the      *)
(* locals it captured.  Other events are delivered while it is suspended.  *)
(***************************************************************************)
EXTENDS Integers, Sequences, FiniteSets, Bags, TLC

----------------------------------------------------------------------------
(* Bounds of the model *)

\* rounds a room is followed for: the generator call of a later round is begun
\* and not followed further
MaxRound == 2
\* handlers that may be suspended at an await at the same time
MaxPending == 2
\* rounds followed when narrations are processed one after another
MaxTagRound == 5
\* connection ids of the transport
Conns == {"a", "b"}

----------------------------------------------------------------------------
(* Program constants *)

VOTING_DURATION_MS == 20000
AGENT_VOTING_DURATION_MS == 25000
FALLBACK_DELAY_MS == 5000

Variants == {"server", "agent", "part000"}
Options == {"1", "2", "3"}
\* a `choice` that is no regular expression: new RegExp(choice + ...) throws
BadPattern == "("
\* values a VOTE message may carry in `choice`: options, a key that is no
\* option, and a key that is no pattern
Choices == {"1", "2", "4", BadPattern}
\* Object.entries order of the keys of currentVotes: integer keys ascending,
\* then the others
KeyOrder == <<"1", "2", "3", "4", BadPattern>>

ZeroVotes == [o \in Options |-> 0]

\* message contents are pairs <<text, option>>; a narration is a story
\* ending in three bracketed options
Story == <<"story", "">>
Fallback == <<"fallback", "">>
SystemPrompt == <<"system prompt", "">>
Begin == <<"begin", "">>

Msg(role, content) == [role |-> role, content |-> content]

DefaultStats == [hp |-> 100, maxHp |-> 100, gold |-> 0, level |-> 1]

getDefaultState ==
    [messages |-> <<Msg("system", SystemPrompt)>>,
     phase |-> "LOBBY",
     currentVotes |-> ZeroVotes,
     connectedUsers |-> 0,
     votingDeadline |-> {},
     votedUsers |-> <<>>,
     roundNumber |-> 0,
     isProcessing |-> FALSE,
     partyStats |-> DefaultStats]

----------------------------------------------------------------------------
(* vote counting and winner selection *)

\* updatedVotes[data.choice] = (updatedVotes[data.choice] || 0) + 1
CountVote(votes, choice) ==
    IF choice \in DOMAIN votes
    THEN [votes EXCEPT ![choice] = @ + 1]
    ELSE votes @@ (choice :> 1)

\* for (const [choice, count] of Object.entries(votes))
\*     if (count > maxVotes) { maxVotes = count; winningChoice = choice; }
RECURSIVE FirstMaxLoop(_, _, _, _)
FirstMaxLoop(votes, i, maxVotes, winningChoice) ==
    IF i > Len(KeyOrder) THEN winningChoice
    ELSE LET choice == KeyOrder[i] IN
         IF choice \in DOMAIN votes /\ votes[choice] > maxVotes
         THEN FirstMaxLoop(votes, i + 1, votes[choice], choice)
         ELSE FirstMaxLoop(votes, i + 1, maxVotes, winningChoice)

\* not the code: the initial winningChoice, whatever the tallies
ServerWinnerIgnoresTally(votes) == "1"

\* server.ts: maxVotes starts at -1
ServerWinner(votes) == FirstMaxLoop(votes, 1, 0 - 1, "1")

\* not the code: the loop with `count >= maxVotes`, which keeps the last maximum
RECURSIVE LastMaxLoop(_, _, _, _)
LastMaxLoop(votes, i, maxVotes, winningChoice) ==
    IF i > Len(KeyOrder) THEN winningChoice
    ELSE LET choice == KeyOrder[i] IN
         IF choice \in DOMAIN votes /\ votes[choice] >= maxVotes
         THEN LastMaxLoop(votes, i + 1, votes[choice], choice)
         ELSE LastMaxLoop(votes, i + 1, maxVotes, winningChoice)

PartWinnerLastMax(votes) == LastMaxLoop(votes, 1, 0, "1")

\* part_000: maxVotes starts at 0
PartWinner(votes) == FirstMaxLoop(votes, 1, 0, "1")

MaxOf(votes) == CHOOSE m \in {votes[k] : k \in DOMAIN votes} :
                    \A k \in DOMAIN votes : votes[k] <= m

\* story-agent.ts: the options sharing Math.max(...Object.values(votes));
\* Math.random() picks one of them
AgentCandidates(votes) == {c \in DOMAIN votes : votes[c] = MaxOf(votes)}

\* the text of option `choice` in a narration: match[1] of
\* `${winningChoice}\.\s*\[([^\]]+)\]`, or "Option N" without a match.
\* The text of a turn tells the two apart, not the option; the option chosen
\* last is kept in winningChoice.
OptionLabel(content, choice) ==
    IF content \in {Story, Fallback} /\ choice \in Options
    THEN <<"label", "">>
    ELSE <<"Option", "">>

\* s.messages.filter(m => m.role === "assistant").pop()
LastAssistant(messages) ==
    LET idx == {i \in 1..Len(messages) : messages[i].role = "assistant"} IN
    IF idx = {} THEN {}
    ELSE {messages[CHOOSE i \in idx : \A j \in idx : j <= i]}

\* s.messages[s.messages.length - 1], when its role is "assistant"
LastIfAssistant(messages) ==
    IF messages[Len(messages)].role = "assistant"
    THEN {messages[Len(messages)]}
    ELSE {}

\* new RegExp(`${winningChoice}\\.\\s*\\[([^\\]]+)\\]`) throws a SyntaxError
ExtractionThrows(last, choice) == last # {} /\ choice = BadPattern

ActionText(last, choice) ==
    IF last = {} THEN <<"Option", choice>>
    ELSE OptionLabel((CHOOSE m \in last : TRUE).content, choice)

----------------------------------------------------------------------------
(* the narration generator's answers *)

Output(text, hp, victory) ==
    [text |-> text, hp |-> hp, gold |-> <<>>, victory |-> victory]

\* env.AI.run resolving with a story
PlainOutputs == {Output(Story, <<>>, FALSE)}

\* story-agent.ts reads [[HP-n]], [[HP+n]] and [[VICTORY]] tags in the story
HpDamage == 60
AgentOutputs ==
    PlainOutputs \cup
    {Output(Story, <<0 - HpDamage>>, FALSE),
     Output(Story, <<>>, TRUE),
     Output(Story, <<0 - HpDamage, 0 - HpDamage>>, TRUE)}

Outputs(v) == IF v = "agent" THEN AgentOutputs ELSE PlainOutputs

\* stories with up to two [[HP+-n]] and two [[GOLD+-n]] tags, with or without
\* [[VICTORY]]
HpTags == {0 - HpDamage, 30}
GoldTags == {50, 0 - 80}
TagSeqs(S) == {<<>>} \cup {<<x>> : x \in S} \cup {<<x, y>> : x \in S, y \in S}
TagOutputs ==
    {[text |-> Story, hp |-> h, gold |-> g, victory |-> v] :
        h \in TagSeqs(HpTags), g \in TagSeqs(GoldTags), v \in BOOLEAN}

Min2(a, b) == IF a < b THEN a ELSE b
Max2(a, b) == IF a > b THEN a ELSE b

\* not the code: the HP loop without Math.min and Math.max
RECURSIVE ApplyHpUnclamped(_, _, _)
ApplyHpUnclamped(stats, tags, i) ==
    IF i > Len(tags) THEN stats
    ELSE ApplyHpUnclamped([stats EXCEPT !.hp = stats.hp + tags[i]], tags, i + 1)

RECURSIVE ApplyHp(_, _, _)
ApplyHp(stats, tags, i) ==
    IF i > Len(tags) THEN stats
    ELSE ApplyHp([stats EXCEPT !.hp = Min2(stats.maxHp, Max2(0, stats.hp + tags[i]))],
                 tags, i + 1)

\* stats.gold = Math.max(0, stats.gold + parseInt(match[1]))
RECURSIVE ApplyGold(_, _, _)
ApplyGold(stats, tags, i) ==
    IF i > Len(tags) THEN stats
    ELSE ApplyGold([stats EXCEPT !.gold = Max2(0, stats.gold + tags[i])], tags, i + 1)

\* not the code: the GAMEOVER test placed before the VICTORY test
parseStateTagsVictoryLast(out, currentState) ==
    LET stats1 == ApplyGold(ApplyHp(currentState.partyStats, out.hp, 1), out.gold, 1)
        phase1 == IF stats1.hp <= 0 THEN "GAMEOVER" ELSE currentState.phase
        phase2 == IF out.victory THEN "VICTORY" ELSE phase1
    IN [currentState EXCEPT !.phase = phase2, !.partyStats = stats1]

parseStateTags(out, currentState) ==
    LET stats1 == ApplyGold(ApplyHp(currentState.partyStats, out.hp, 1), out.gold, 1)
        phase1 == IF out.victory THEN "VICTORY" ELSE currentState.phase
        phase2 == IF stats1.hp <= 0 THEN "GAMEOVER" ELSE phase1
        stats2 == IF /\ currentState.roundNumber > 0
                     /\ currentState.roundNumber % 5 = 0
                     /\ phase2 = "VOTING"
                  THEN [stats1 EXCEPT !.level = @ + 1,
                                      !.maxHp = @ + 20,
                                      !.hp = stats1.maxHp + 20]
                  ELSE stats1
    IN [currentState EXCEPT !.phase = phase2, !.partyStats = stats2]

----------------------------------------------------------------------------
VARIABLES
    variant,    \* which revision of StoryAgent runs the room
    roomCode,   \* the room code each client joined with
    state,      \* this.state, the persisted StoryState
    isLocked,   \* the in-memory lock (server, agent)
    alarm,      \* the wake-up the storage holds: {} or {[at, round]}
    fired,      \* the wake-up the timer dispatched whose alarm() has not run yet
    winningChoice, \* the option the last vote resolution chose: {} or {choice}
    open,       \* connections the transport holds open
    pending     \* bag of suspended handlers

vars == <<variant, roomCode, state, isLocked, alarm, fired, winningChoice, open, pending>>

\* Timestamps are kept as offsets from the present instant, which the program
\* reads as Date.now(): only differences of timestamps are ever used.
Now == 0

\* the timestamps of a state record, d later
Later(s, d) == [s EXCEPT !.votingDeadline = {t - d : t \in @}]

\* a suspended handler: where it waits (k) and the locals it captured
Cont(k, msgs, deadline, round, snap, text) ==
    [k |-> k, msgs |-> msgs, deadline |-> deadline, round |-> round,
     snap |-> snap, text |-> text]

AwaitAI(msgs, round) == Cont("ai", msgs, 0, round, {}, <<"", "">>)
AwaitDeleteAlarm(round) == Cont("deleteAlarm", <<>>, 0, round, {}, <<"", "">>)
AwaitSetAlarm(msgs, deadline, round, snap, text) ==
    Cont("setAlarm", msgs, deadline, round, snap, text)
AwaitCatchSetAlarm(msgs, deadline, round) ==
    Cont("catchSetAlarm", msgs, deadline, round, {}, <<"", "">>)

\* the timestamps a suspended handler captured, d later
LaterCont(c, d) ==
    IF c.k \in {"setAlarm", "catchSetAlarm"}
    THEN [c EXCEPT !.deadline = @ - d, !.snap = {Later(f, d) : f \in @}]
    ELSE c

Includes(seq, x) == \E i \in 1..Len(seq) : seq[i] = x

\* the object as one record, so that a handler is a function on it
Cur == [state |-> state, isLocked |-> isLocked, alarm |-> alarm, pending |-> pending,
        winningChoice |-> winningChoice]

Suspend(m, c) == [m EXCEPT !.pending = @ (+) SetToBag({c})]
Resumed(c) == [Cur EXCEPT !.pending = @ (-) SetToBag({c})]
Waiting(k) == {c \in BagToSet(pending) : c.k = k}

\* ctx.storage.setAlarm(at): one wake-up, replacing any earlier one
setAlarm(m, at) == [m EXCEPT !.alarm = {[at |-> at, round |-> m.state.roundNumber]}]
\* ctx.storage.deleteAlarm()
deleteAlarm(m) == [m EXCEPT !.alarm = {}]

\* the step is taken within the bounds of the model: the round after the last
\* one followed may begin
Commit(m) ==
    /\ m.state.roundNumber <= MaxRound + 1
    /\ BagCardinality(m.pending) <= MaxPending
    /\ state' = m.state
    /\ isLocked' = m.isLocked
    /\ alarm' = m.alarm
    /\ pending' = m.pending
    /\ winningChoice' = m.winningChoice

UserTurn(prompt) ==
    Msg("user", IF prompt = {} THEN Begin ELSE CHOOSE p \in prompt : TRUE)

\* the room codes clients join with (createRoom draws four characters)
RoomCodes == {"AAAA", "BBBB"}

\* the name of the Durable Object whose state the variables hold
GlobalRoom == "global-story-room"

\* connect(): the address a client of room `code` opens its socket on
wsUrl(code) == [pathname |-> "/agent", room |-> code]

idFromName(name) == name

\* the worker's fetch: the object a request for /agent is handed to
fetch(url) == IF url.pathname = "/agent" THEN idFromName(GlobalRoom) ELSE "assets"

Init ==
    /\ variant \in Variants
    /\ roomCode = [c \in Conns |-> "AAAA"]
    /\ state = getDefaultState
    /\ isLocked = FALSE
    /\ alarm = {}
    /\ fired = {}
    /\ winningChoice = {}
    /\ open = {}
    /\ pending = EmptyBag

----------------------------------------------------------------------------
(* src/src/server.ts *)

\* not the code: startRound without `votedUsers: []`
ServerStartRoundKeepsVoters(m, prompt) ==
    LET s == m.state
        nextRound == s.roundNumber + 1
        history == Append(s.messages, UserTurn(prompt))
    IN Suspend([m EXCEPT !.isLocked = TRUE,
                         !.state = [s EXCEPT !.phase = "NARRATING",
                                             !.roundNumber = nextRound,
                                             !.currentVotes = ZeroVotes]],
               AwaitAI(history, nextRound))

ServerStartRound(m, prompt) ==
    LET s == m.state
        nextRound == s.roundNumber + 1
        history == Append(s.messages, UserTurn(prompt))
    IN Suspend([m EXCEPT !.isLocked = TRUE,
                         !.state = [s EXCEPT !.phase = "NARRATING",
                                             !.roundNumber = nextRound,
                                             !.currentVotes = ZeroVotes,
                                             !.votedUsers = <<>>]],
               AwaitAI(history, nextRound))

\* not the code: resolveVotes without `if (this.isLocked) return`
ServerResolveVotesUnlocked(m) ==
    LET s == m.state
        winner == ServerWinner(s.currentVotes)
        lastAssistantMsg == LastAssistant(s.messages)
        m1 == [m EXCEPT !.isLocked = TRUE, !.winningChoice = {winner}]
    IN IF ExtractionThrows(lastAssistantMsg, winner)
       THEN m1
       ELSE ServerStartRound(m1, {ActionText(lastAssistantMsg, winner)})

ServerResolveVotes(m) ==
    IF m.isLocked THEN m
    ELSE LET s == m.state
             winner == ServerWinner(s.currentVotes)
             lastAssistantMsg == LastAssistant(s.messages)
             m1 == [m EXCEPT !.isLocked = TRUE, !.winningChoice = {winner}]
         IN IF ExtractionThrows(lastAssistantMsg, winner)
            THEN m1
            ELSE ServerStartRound(m1, {ActionText(lastAssistantMsg, winner)})

ServerEarlyResolution(m, s, updatedVoters) ==
    Len(updatedVoters) >= s.connectedUsers /\ ~m.isLocked

\* not the code: the VOTE guard without `!s.votedUsers.includes(connectionId)`
ServerVoteAcceptedAgain(s, id) ==
    s.phase = "VOTING"

ServerVoteAccepted(s, id) ==
    s.phase = "VOTING" /\ ~Includes(s.votedUsers, id)

\* not the code: a VOTE branch that counts a vote in any phase
ServerOnVoteAnyPhase(m, id, choice, deleteThrows) ==
    LET s == m.state IN
    IF ~Includes(s.votedUsers, id)
    THEN [m EXCEPT !.state = [s EXCEPT
                      !.currentVotes = CountVote(s.currentVotes, choice),
                      !.votedUsers = Append(s.votedUsers, id)]]
    ELSE m

ServerOnVote(m, id, choice, deleteThrows) ==
    LET s == m.state IN
    IF ServerVoteAccepted(s, id)
    THEN LET updatedVoters == Append(s.votedUsers, id)
             m1 == [m EXCEPT !.state = [s EXCEPT
                        !.currentVotes = CountVote(s.currentVotes, choice),
                        !.votedUsers = updatedVoters]]
         IN IF ServerEarlyResolution(m, s, updatedVoters)
            THEN IF deleteThrows THEN m1
                 ELSE Suspend(deleteAlarm(m1), AwaitDeleteAlarm(s.roundNumber))
            ELSE m1
    ELSE m

\* not the code: START_GAME without `s.phase === "LOBBY"`
ServerOnStartGameAnyPhase(m) ==
    IF ~m.isLocked
    THEN ServerStartRound(m, {})
    ELSE m

ServerOnStartGame(m) ==
    IF m.state.phase = "LOBBY" /\ ~m.isLocked
    THEN ServerStartRound(m, {})
    ELSE m

ServerAlarm(m) ==
    IF m.state.phase = "VOTING" /\ ~m.isLocked
    THEN ServerResolveVotes(m)
    ELSE m

\* not the code: the catch block without its setAlarm
ServerCatchArmsNothing(m, t, armThrows) ==
    LET m1 == [m EXCEPT !.state = [m.state EXCEPT
                   !.messages = Append(m.state.messages, Msg("assistant", Fallback)),
                   !.phase = "VOTING",
                   !.votingDeadline = {t + FALLBACK_DELAY_MS}]]
    IN IF armThrows
       THEN [m1 EXCEPT !.isLocked = FALSE]
       ELSE Suspend(m1, AwaitCatchSetAlarm(<<>>, t + FALLBACK_DELAY_MS, m1.state.roundNumber))

\* the catch block of startRound, then `finally`
ServerCatch(m, t, armThrows) ==
    LET m1 == [m EXCEPT !.state = [m.state EXCEPT
                   !.messages = Append(m.state.messages, Msg("assistant", Fallback)),
                   !.phase = "VOTING",
                   !.votingDeadline = {t + FALLBACK_DELAY_MS}]]
    IN IF armThrows
       THEN [m1 EXCEPT !.isLocked = FALSE]
       ELSE Suspend(setAlarm(m1, t + FALLBACK_DELAY_MS),
                    AwaitCatchSetAlarm(<<>>, t + FALLBACK_DELAY_MS, m1.state.roundNumber))

\* env.AI.run resolved with `out`
ServerAiReturns(m, c, out, t, armThrows, catchArmThrows) ==
    IF armThrows THEN ServerCatch(m, t, catchArmThrows)
    ELSE LET finalMessages == Append(c.msgs, Msg("assistant", out.text))
             deadline == t + VOTING_DURATION_MS
         IN Suspend(setAlarm(m, deadline),
                    AwaitSetAlarm(finalMessages, deadline, c.round, {}, out.text))

\* not the code: the final setState of startRound counting the round again
ServerSetAlarmDoneCountsAgain(m, c) ==
    [m EXCEPT !.state = [m.state EXCEPT !.messages = c.msgs,
                                        !.phase = "VOTING",
                                        !.votingDeadline = {c.deadline},
                                        !.roundNumber = c.round + 1],
              !.isLocked = FALSE]

ServerSetAlarmDone(m, c) ==
    [m EXCEPT !.state = [m.state EXCEPT !.messages = c.msgs,
                                        !.phase = "VOTING",
                                        !.votingDeadline = {c.deadline},
                                        !.roundNumber = c.round],
              !.isLocked = FALSE]

ServerCatchSetAlarmDone(m, c) == [m EXCEPT !.isLocked = FALSE]

----------------------------------------------------------------------------
(* src/src/story-agent.ts *)

\* not the code: startRound without the reset of currentVotes and votedUsers
AgentStartRoundKeepsVotes(m, prompt) ==
    LET s == m.state
        nextRound == s.roundNumber + 1
        newMessagesForState == Append(s.messages, UserTurn(prompt))
    IN Suspend([m EXCEPT !.isLocked = TRUE,
                         !.state = [s EXCEPT !.phase = "NARRATING",
                                             !.roundNumber = nextRound,
                                             !.messages = newMessagesForState]],
               AwaitAI(<<>>, nextRound))

AgentStartRound(m, prompt) ==
    LET s == m.state
        nextRound == s.roundNumber + 1
        newMessagesForState == Append(s.messages, UserTurn(prompt))
    IN Suspend([m EXCEPT !.isLocked = TRUE,
                         !.state = [s EXCEPT !.phase = "NARRATING",
                                             !.roundNumber = nextRound,
                                             !.messages = newMessagesForState,
                                             !.currentVotes = ZeroVotes,
                                             !.votedUsers = <<>>]],
               AwaitAI(<<>>, nextRound))

\* winner: the candidate Math.random() picked
AgentResolveVotes(m, winner) ==
    IF m.isLocked THEN m
    ELSE LET s == m.state
             lastModelMsg == LastAssistant(s.messages)
             m1 == [m EXCEPT !.isLocked = TRUE, !.winningChoice = {winner}]
         IN IF ExtractionThrows(lastModelMsg, winner)
            THEN m1
            ELSE AgentStartRound(m1, {ActionText(lastModelMsg, winner)})

\* not the code: the VOTE guard without `s.phase === "VOTING"`
AgentVoteAcceptedAnyPhase(s, id) ==
    ~Includes(s.votedUsers, id)

AgentVoteAccepted(s, id) ==
    s.phase = "VOTING" /\ ~Includes(s.votedUsers, id)

AgentOnVote(m, id, choice, deleteThrows) ==
    LET s == m.state IN
    IF AgentVoteAccepted(s, id)
    THEN LET updatedVoters == Append(s.votedUsers, id)
             m1 == [m EXCEPT !.state = [s EXCEPT
                        !.currentVotes = CountVote(s.currentVotes, choice),
                        !.votedUsers = updatedVoters]]
         IN IF Len(updatedVoters) >= s.connectedUsers /\ ~m.isLocked
            THEN IF deleteThrows THEN m1
                 ELSE Suspend(deleteAlarm(m1), AwaitDeleteAlarm(s.roundNumber))
            ELSE m1
    ELSE m

AgentOnStartGame(m) ==
    IF m.state.phase = "LOBBY" /\ ~m.isLocked
    THEN AgentStartRound(m, {})
    ELSE m

\* not the code: alarm() without `phase === "VOTING"`
AgentAlarmAnyPhase(m, winner) ==
    IF ~m.isLocked
    THEN AgentResolveVotes(m, winner)
    ELSE m

AgentAlarm(m, winner) ==
    IF m.state.phase = "VOTING" /\ ~m.isLocked
    THEN AgentResolveVotes(m, winner)
    ELSE m

\* the catch block of startRound only logs; `finally` releases the lock
AgentCatch(m) == [m EXCEPT !.isLocked = FALSE]

\* env.AI.run resolved with `out`
AgentAiReturns(m, c, out, t, armThrows) ==
    IF armThrows THEN AgentCatch(m)
    ELSE LET finalState == parseStateTags(out, m.state)
             deadline == t + AGENT_VOTING_DURATION_MS
         IN Suspend(setAlarm(m, deadline),
                    AwaitSetAlarm(<<>>, deadline, c.round, {finalState}, out.text))

AgentSetAlarmDone(m, c) ==
    LET finalState == CHOOSE f \in c.snap : TRUE IN
    [m EXCEPT !.state = [finalState EXCEPT
                  !.messages = Append(finalState.messages, Msg("assistant", c.text)),
                  !.phase = IF finalState.phase = "NARRATING"
                            THEN "VOTING" ELSE finalState.phase,
                  !.votingDeadline = {c.deadline}],
              !.isLocked = FALSE]

----------------------------------------------------------------------------
(* src/unnamed/part_000, the revision with state.isProcessing *)

PartStartNewRound(m, chosenAction) ==
    LET s == m.state
        newRoundNumber == s.roundNumber + 1
    IN Suspend([m EXCEPT !.state = [s EXCEPT !.phase = "NARRATING",
                                             !.roundNumber = newRoundNumber,
                                             !.currentVotes = ZeroVotes,
                                             !.votedUsers = <<>>,
                                             !.isProcessing = TRUE]],
               AwaitAI(s.messages, newRoundNumber))

PartResolveAndContinue(m, expectedRound) ==
    LET s == m.state IN
    IF s.roundNumber # expectedRound \/ s.phase # "VOTING" \/ s.isProcessing
    THEN m
    ELSE LET winner == PartWinner(s.currentVotes)
             m1 == [m EXCEPT !.state = [s EXCEPT !.isProcessing = TRUE],
                             !.winningChoice = {winner}]
             lastMessage == LastIfAssistant(s.messages)
         IN IF ExtractionThrows(lastMessage, winner)
            THEN m1
            ELSE PartStartNewRound(m1, {ActionText(lastMessage, winner)})

PartVoteAccepted(s, id) ==
    s.phase = "VOTING" /\ ~s.isProcessing /\ ~Includes(s.votedUsers, id)

PartEarlyResolution(s, newVotedUsers) ==
    Len(newVotedUsers) >= s.connectedUsers /\ s.connectedUsers > 0

\* a failing deleteAlarm is caught and logged
PartOnVote(m, id, choice, deleteThrows) ==
    LET s == m.state IN
    IF PartVoteAccepted(s, id)
    THEN LET newVotedUsers == Append(s.votedUsers, id)
             m1 == [m EXCEPT !.state = [s EXCEPT
                        !.currentVotes = CountVote(s.currentVotes, choice),
                        !.votedUsers = newVotedUsers]]
         IN IF PartEarlyResolution(s, newVotedUsers)
            THEN Suspend(IF deleteThrows THEN m1 ELSE deleteAlarm(m1),
                         AwaitDeleteAlarm(s.roundNumber))
            ELSE m1
    ELSE m

PartOnStartGame(m) ==
    IF m.state.phase = "LOBBY" /\ ~m.state.isProcessing
    THEN PartStartNewRound(m, {})
    ELSE m

PartAlarm(m) ==
    LET s == m.state IN
    IF s.phase # "VOTING" \/ s.isProcessing
    THEN m
    ELSE PartResolveAndContinue(m, s.roundNumber)

\* the catch block of startNewRound: a setAlarm that throws here leaves the handler
PartCatch(m, c, t, armThrows) ==
    LET errorMessages == Append(c.msgs, Msg("assistant", Fallback))
        votingDeadline == t + VOTING_DURATION_MS
    IN IF armThrows THEN m
       ELSE Suspend(setAlarm(m, votingDeadline),
                    AwaitCatchSetAlarm(errorMessages, votingDeadline, c.round))

PartAiReturns(m, c, out, t, armThrows, catchArmThrows) ==
    IF armThrows THEN PartCatch(m, c, t, catchArmThrows)
    ELSE LET updatedMessages == Append(c.msgs, Msg("assistant", out.text))
             votingDeadline == t + VOTING_DURATION_MS
         IN Suspend(setAlarm(m, votingDeadline),
                    AwaitSetAlarm(updatedMessages, votingDeadline, c.round, {}, out.text))

\* not the code: a final setState that keeps only the new narrator turn
PartSetAlarmDoneLastTurnOnly(m, c) ==
    [m EXCEPT !.state = [m.state EXCEPT !.messages = <<c.msgs[Len(c.msgs)]>>,
                                        !.phase = "VOTING",
                                        !.votingDeadline = {c.deadline},
                                        !.currentVotes = ZeroVotes,
                                        !.votedUsers = <<>>,
                                        !.isProcessing = FALSE]]

PartSetAlarmDone(m, c) ==
    [m EXCEPT !.state = [m.state EXCEPT !.messages = c.msgs,
                                        !.phase = "VOTING",
                                        !.votingDeadline = {c.deadline},
                                        !.currentVotes = ZeroVotes,
                                        !.votedUsers = <<>>,
                                        !.isProcessing = FALSE]]

----------------------------------------------------------------------------
(* the events of a room *)

onConnect(c) ==
    /\ c \notin open
    /\ fetch(wsUrl(roomCode[c])) = GlobalRoom
    /\ open' = open \cup {c}
    /\ state' = [state EXCEPT !.connectedUsers = @ + 1]
    /\ UNCHANGED <<variant, roomCode, isLocked, alarm, fired, winningChoice, pending>>

\* not the code: onClose without `if (s.connectedUsers > 0)`
onCloseUnguarded(c) ==
    /\ c \in open
    /\ open' = open \ {c}
    /\ state' = [state EXCEPT !.connectedUsers = @ - 1]
    /\ UNCHANGED <<variant, roomCode, isLocked, alarm, fired, winningChoice, pending>>

onClose(c) ==
    /\ c \in open
    /\ open' = open \ {c}
    /\ state' = IF state.connectedUsers > 0
                THEN [state EXCEPT !.connectedUsers = @ - 1]
                ELSE state
    /\ UNCHANGED <<variant, roomCode, isLocked, alarm, fired, winningChoice, pending>>

\* not the code: a handler that takes the lock before it parses the body
OnParseErrorHoldsLock(m) == [m EXCEPT !.isLocked = TRUE,
                                      !.state = [m.state EXCEPT !.isProcessing = TRUE]]

\* try { data = JSON.parse(msgStr) } catch (e) { return; }
OnParseError(m) == m

\* onMessage with a body JSON.parse rejects
MalformedMessage(c) ==
    /\ c \in open
    /\ Commit(OnParseError(Cur))
    /\ UNCHANGED <<variant, roomCode, fired, open>>

StartGame(c) ==
    /\ c \in open
    /\ Commit(CASE variant = "server" -> ServerOnStartGame(Cur)
                [] variant = "agent" -> AgentOnStartGame(Cur)
                [] variant = "part000" -> PartOnStartGame(Cur))
    /\ UNCHANGED <<variant, roomCode, fired, open>>

Vote(c, choice) ==
    /\ c \in open
    /\ \E deleteThrows \in BOOLEAN :
          Commit(CASE variant = "server" -> ServerOnVote(Cur, c, choice, deleteThrows)
                   [] variant = "agent" -> AgentOnVote(Cur, c, choice, deleteThrows)
                   [] variant = "part000" -> PartOnVote(Cur, c, choice, deleteThrows))
    /\ UNCHANGED <<variant, roomCode, fired, open>>

\* the vote handler resumes after `await deleteAlarm()`
DeleteAlarmDone ==
    /\ \E c \in Waiting("deleteAlarm") :
          \/ /\ variant = "server"
             /\ Commit(ServerResolveVotes(Resumed(c)))
          \/ /\ variant = "agent"
             /\ \E w \in AgentCandidates(state.currentVotes) :
                   Commit(AgentResolveVotes(Resumed(c), w))
          \/ /\ variant = "part000"
             /\ Commit(PartResolveAndContinue(Resumed(c), c.round))
    /\ UNCHANGED <<variant, roomCode, fired, open>>

\* the armed wake-up comes due and the timer dispatches it
TimerFires ==
    /\ fired = {}
    /\ \E a \in alarm :
          /\ a.at <= Now
          /\ fired' = {a.round}
    /\ alarm' = {}
    /\ UNCHANGED <<variant, roomCode, state, isLocked, winningChoice, open, pending>>

\* alarm() runs for a dispatched wake-up
Alarm ==
    /\ \E r \in fired :
          /\ fired' = fired \ {r}
          /\ \/ /\ variant = "server"
                /\ Commit(ServerAlarm(Cur))
             \/ /\ variant = "agent"
                /\ \E w \in AgentCandidates(state.currentVotes) :
                      Commit(AgentAlarm(Cur, w))
             \/ /\ variant = "part000"
                /\ Commit(PartAlarm(Cur))
    /\ UNCHANGED <<variant, roomCode, open>>

\* env.AI.run resolves; the handler goes on to `await setAlarm(deadline)`
AiReturns ==
    /\ \E c \in {w \in Waiting("ai") : w.round <= MaxRound}, out \in Outputs(variant),
          armThrows \in BOOLEAN, catchArmThrows \in BOOLEAN :
          Commit(CASE variant = "server" ->
                        ServerAiReturns(Resumed(c), c, out, Now, armThrows, catchArmThrows)
                   [] variant = "agent" ->
                        AgentAiReturns(Resumed(c), c, out, Now, armThrows)
                   [] variant = "part000" ->
                        PartAiReturns(Resumed(c), c, out, Now, armThrows, catchArmThrows))
    /\ UNCHANGED <<variant, roomCode, fired, open>>

\* env.AI.run rejects; the handler enters the catch block
AiFails ==
    /\ \E c \in {w \in Waiting("ai") : w.round <= MaxRound}, catchArmThrows \in BOOLEAN :
          Commit(CASE variant = "server" -> ServerCatch(Resumed(c), Now, catchArmThrows)
                   [] variant = "agent" -> AgentCatch(Resumed(c))
                   [] variant = "part000" -> PartCatch(Resumed(c), c, Now, catchArmThrows))
    /\ UNCHANGED <<variant, roomCode, fired, open>>

\* startRound resumes after `await setAlarm(deadline)` in the try block
SetAlarmDone ==
    /\ \E c \in Waiting("setAlarm") :
          Commit(CASE variant = "server" -> ServerSetAlarmDone(Resumed(c), c)
                   [] variant = "agent" -> AgentSetAlarmDone(Resumed(c), c)
                   [] variant = "part000" -> PartSetAlarmDone(Resumed(c), c))
    /\ UNCHANGED <<variant, roomCode, fired, open>>

\* startRound resumes after `await setAlarm(...)` in the catch block
CatchSetAlarmDone ==
    /\ \E c \in Waiting("catchSetAlarm") :
          Commit(CASE variant = "server" -> ServerCatchSetAlarmDone(Resumed(c), c)
                   [] variant = "part000" -> PartSetAlarmDone(Resumed(c), c))
    /\ UNCHANGED <<variant, roomCode, fired, open>>

\* Nothing but the timer waits for the clock: time is followed from one
\* wake-up time to the next.  The wake-up time is reached, and every timestamp
\* the object holds is that much nearer.  A storage call (setAlarm,
\* deleteAlarm) returns before the next wake-up time is reached; the
\* generator may take any time.
TimePasses ==
    /\ Waiting("setAlarm") \cup Waiting("catchSetAlarm") \cup Waiting("deleteAlarm") = {}
    /\ \E a \in alarm :
          /\ a.at > Now
          /\ alarm' = {[a EXCEPT !.at = Now]}
          /\ state' = Later(state, a.at - Now)
          /\ pending' = BagOfAll(LAMBDA c : LaterCont(c, a.at - Now), pending)
    /\ UNCHANGED <<variant, roomCode, isLocked, fired, winningChoice, open>>

Next ==
    \/ \E c \in Conns : onConnect(c)
    \/ \E c \in Conns : onClose(c)
    \/ \E c \in Conns : MalformedMessage(c)
    \/ \E c \in Conns : StartGame(c)
    \/ \E c \in Conns, choice \in Choices : Vote(c, choice)
    \/ DeleteAlarmDone
    \/ TimerFires
    \/ Alarm
    \/ AiReturns
    \/ AiFails
    \/ SetAlarmDone
    \/ CatchSetAlarmDone
    \/ TimePasses

Spec == Init /\ [][Next]_vars

\* the same object, with clients that joined under any room codes
InitRooms ==
    /\ variant \in Variants
    /\ roomCode \in [Conns -> RoomCodes]
    /\ state = getDefaultState
    /\ isLocked = FALSE
    /\ alarm = {}
    /\ fired = {}
    /\ winningChoice = {}
    /\ open = {}
    /\ pending = EmptyBag

RoomSpec == InitRooms /\ [][Next]_vars

----------------------------------------------------------------------------
(* story-agent.ts with one round after another run to its end: the wake-up of
   each window resolves it, the generator answers with any tagged story *)

TagCommit(m) ==
    /\ m.state.roundNumber <= MaxTagRound
    /\ state' = m.state
    /\ isLocked' = m.isLocked
    /\ alarm' = m.alarm
    /\ pending' = m.pending
    /\ winningChoice' = m.winningChoice
    /\ UNCHANGED <<variant, roomCode, fired, open>>

TagInit ==
    /\ variant = "agent"
    /\ roomCode = [c \in Conns |-> "AAAA"]
    /\ state = getDefaultState
    /\ isLocked = FALSE
    /\ alarm = {}
    /\ fired = {}
    /\ winningChoice = {}
    /\ open = {}
    /\ pending = EmptyBag

TagStartGame ==
    /\ state.phase = "LOBBY"
    /\ TagCommit(AgentOnStartGame(Cur))

TagAlarm ==
    /\ state.phase = "VOTING"
    /\ \E w \in AgentCandidates(state.currentVotes) :
          TagCommit(AgentAlarm([Cur EXCEPT !.alarm = {}], w))

TagAiReturns ==
    \E c \in Waiting("ai"), out \in TagOutputs :
       TagCommit(AgentAiReturns(Resumed(c), c, out, Now, FALSE))

TagSetAlarmDone ==
    \E c \in Waiting("setAlarm") : TagCommit(AgentSetAlarmDone(Resumed(c), c))

TagNext ==
    \/ TagStartGame
    \/ TagAlarm
    \/ TagAiReturns
    \/ TagSetAlarmDone

TagSpec == TagInit /\ [][TagNext]_vars

----------------------------------------------------------------------------
(* What the claims speak of *)

\* the round-advance lock of the revision that runs
Locked == IF variant = "part000" THEN state.isProcessing ELSE isLocked

\* everything a handler can change
Object == <<state, isLocked, alarm, pending, winningChoice>>

RECURSIVE SumOver(_, _)
SumOver(votes, keys) ==
    IF keys = {} THEN 0
    ELSE LET k == CHOOSE x \in keys : TRUE
         IN votes[k] + SumOver(votes, keys \ {k})

SumVotes(votes) == SumOver(votes, DOMAIN votes)

NoDuplicates(seq) == \A i, j \in 1..Len(seq) : seq[i] = seq[j] => i = j

LastMessage(s) == s.messages[Len(s.messages)]

\* a step in which the votes of a window are resolved: the room leaves VOTING
\* for NARRATING, or the lock is taken and the label extraction throws
ResolveStep ==
    /\ state.phase = "VOTING"
    /\ \/ state'.phase = "NARRATING"
       \/ ~Locked /\ Locked'

\* a step in which a vote is counted
CountedBy(c) ==
    /\ state'.votedUsers = Append(state.votedUsers, c)
    /\ SumVotes(state'.currentVotes) = SumVotes(state.currentVotes) + 1

\* the vote handler suspended in `await deleteAlarm()` that this step resumes
ResumesVote(c) ==
    /\ c \in Waiting("deleteAlarm")
    /\ CopiesIn(c, pending') < CopiesIn(c, pending)

----------------------------------------------------------------------------
(* The claims *)

\* C1: in every persisted state the counts of voteTally add up to the number
\* of entries of votedParticipants, and no id is in votedParticipants twice.
C1_TallyMatchesVoters ==
    /\ SumVotes(state.currentVotes) = Len(state.votedUsers)
    /\ NoDuplicates(state.votedUsers)

\* two votes are counted in the window of a later round
C1_Witness ==
    /\ state.roundNumber = 2
    /\ Len(state.votedUsers) = 2
    /\ state.currentVotes["1"] = 1

\* C2: the option resolveVotes picks has the highest tally of the window;
\* among several options at the highest tally it is one of them.
C2_WinnerHasMaxTally ==
    [][ResolveStep =>
          /\ winningChoice' # {}
          /\ \A w \in winningChoice' :
                /\ w \in DOMAIN state.currentVotes
                /\ state.currentVotes[w] = MaxOf(state.currentVotes)]_vars

\* option "2" won a window of the first-max revision: it had more votes than "1"
C2_Witness ==
    /\ variant = "server"
    /\ winningChoice = {"2"}
    /\ state.phase = "NARRATING"

\* C3 (as claimed): in a window with connectedParticipants > 0, the accepted
\* vote that brings votedParticipants to connectedParticipants goes on to
\* resolve the votes, and when its handler has run the window is closed, with
\* no deadline needed.
C3_FullTurnoutResolves ==
    [][/\ \A c \in Conns :
             (/\ variant \in {"server", "part000"}
              /\ state.phase = "VOTING"
              /\ state.connectedUsers > 0
              /\ CountedBy(c)
              /\ Len(state'.votedUsers) >= state.connectedUsers)
             => CopiesIn(AwaitDeleteAlarm(state.roundNumber), pending') >
                   CopiesIn(AwaitDeleteAlarm(state.roundNumber), pending)
       /\ \A k \in Waiting("deleteAlarm") :
             (variant \in {"server", "part000"} /\ ResumesVote(k))
             => state'.roundNumber > k.round]_vars

\* every connected participant voted in the window the failure path of
\* server.ts opened, the lock is free again, no handler is suspended, and the
\* window is still open, waiting for its wake-up
C3_Witness ==
    /\ variant = "server"
    /\ state.phase = "VOTING"
    /\ LastMessage(state).content = Fallback
    /\ open = {"a"}
    /\ state.connectedUsers = 1
    /\ state.votedUsers = <<"a">>
    /\ ~isLocked
    /\ pending = EmptyBag
    /\ alarm # {}

\* C4: a deadline delivered while the phase is not VOTING changes nothing
\* and starts no round advance.
C4_LateDeadlineIsNoOp ==
    [][(state.phase # "VOTING" /\ Alarm) => UNCHANGED Object]_vars

\* a dispatched wake-up is about to reach alarm() after the room moved on,
\* with the lock free
C4_Witness ==
    /\ fired # {}
    /\ state.phase \in {"NARRATING", "GAMEOVER", "VICTORY"}
    /\ ~Locked

\* the step that persists VOTING after the generator failed
FallbackStep ==
    /\ variant \in {"server", "part000"}
    /\ state.phase = "NARRATING"
    /\ state'.phase = "VOTING"
    /\ LastMessage(state').content = Fallback

C6_SecondVoteChangesNothing ==
    [][\A c \in {x \in open : Includes(state.votedUsers, x)} :
          (\E choice \in Choices : Vote(c, choice)) => UNCHANGED Object]_vars

\* a participant who voted in the open window is still connected
C6_Witness ==
    /\ state.phase = "VOTING"
    /\ ~Locked
    /\ Includes(state.votedUsers, "a")
    /\ "a" \in open
    /\ state.connectedUsers = 2

\* C7: whenever the phase becomes VOTING, voteTally is the three options at
\* zero and votedParticipants is empty; the first window has roundNumber 1.
C7_WindowOpensEmpty ==
    [][(state.phase # "VOTING" /\ state'.phase = "VOTING") =>
          /\ state'.currentVotes = ZeroVotes
          /\ state'.votedUsers = <<>>
          /\ (LastAssistant(state.messages) = {} => state'.roundNumber = 1)]_vars

\* the window of the second round is open and empty
C7_Witness ==
    /\ state.phase = "VOTING"
    /\ state.roundNumber = 2
    /\ state.votedUsers = <<>>
    /\ winningChoice = {"2"}

\* C8: StartGame starts a round advance only in LOBBY with the lock free and
\* changes nothing otherwise; LOBBY is never entered again, so one StartGame
\* at most is accepted.
C8_StartGameOnlyInLobby ==
    /\ [][\A c \in Conns :
             (~(state.phase = "LOBBY" /\ ~Locked) /\ StartGame(c))
             => UNCHANGED Object]_vars
    /\ [][\A c \in Conns :
             (state.phase = "LOBBY" /\ ~Locked /\ StartGame(c))
             => (state'.phase = "NARRATING" /\ state'.roundNumber = 1 /\ Locked')]_vars
    /\ [][state.phase # "LOBBY" => state'.phase # "LOBBY"]_vars

\* a connected client can send START_GAME while a window is open
C8_Witness ==
    /\ state.phase = "VOTING"
    /\ ~Locked
    /\ open # {}
    /\ state.roundNumber = 2

\* C9: a vote is counted only in VOTING and only for a participant who has
\* not voted; a Vote in another phase changes nothing and leaves nothing
\* behind to be counted later.
C9_VoteOnlyInVoting ==
    /\ [][\A c \in Conns, choice \in Choices :
             (state.phase # "VOTING" /\ Vote(c, choice)) => UNCHANGED Object]_vars
    /\ [][(state'.currentVotes # state.currentVotes \/ state'.votedUsers # state.votedUsers)
          => \/ state'.currentVotes = ZeroVotes /\ state'.votedUsers = <<>>
             \/ /\ state.phase = "VOTING"
                /\ \E c \in open : ~Includes(state.votedUsers, c) /\ CountedBy(c)]_vars

\* a connected client can send VOTE while the second round is narrated
C9_Witness ==
    /\ state.phase = "NARRATING"
    /\ state.roundNumber = 2
    /\ "a" \in open

\* C10 (as claimed): while the lock is held, a StartGame, a Vote or a
\* deadline leaves the room state unchanged.
C10_LockedRoomIgnoresEvents ==
    [][(/\ variant \in {"server", "part000"}
        /\ Locked
        /\ \/ Alarm
           \/ \E c \in Conns : StartGame(c)
           \/ \E c \in Conns, choice \in Choices : Vote(c, choice))
       => UNCHANGED state]_vars

\* a vote was counted in server.ts while the lock was held
C10_Witness ==
    /\ variant = "server"
    /\ isLocked
    /\ Waiting("catchSetAlarm") # {}
    /\ state.phase = "VOTING"
    /\ state.votedUsers # <<>>

----------------------------------------------------------------------------
(* Round advances and their triggers *)

\* handlers suspended at an await of kind k
Calls(k) == BagCardinality([c \in Waiting(k) |-> CopiesIn(c, pending)])

\* generator calls in progress
AiCalls == Calls("ai")

\* a step in which a round advance begins
AdvanceStep == state'.roundNumber # state.roundNumber

\* C11 (as claimed): the full-turnout trigger and the wake-up of a window
\* cause one round advance between them: an advance adds exactly 1 to
\* roundNumber and makes exactly one generator call, never a second one
\* beside it, and a trigger of the window of round r advances the room only
\* out of round r.
C11_OneAdvancePerWindow ==
    [][/\ (variant \in {"server", "agent"} /\ AdvanceStep)
          => /\ state'.roundNumber = state.roundNumber + 1
             /\ AiCalls = 0
             /\ AiCalls' = 1
       /\ \A r \in fired :
             (variant \in {"server", "agent"} /\ AdvanceStep /\ Alarm)
             => state.roundNumber = r
       /\ \A k \in Waiting("deleteAlarm") :
             (variant \in {"server", "agent"} /\ AdvanceStep /\ ResumesVote(k))
             => state.roundNumber = k.round]_vars

\* round 3 has begun in server.ts while the wake-up armed for the window of
\* round 2 is still armed: a trigger of the window of round 1 closed it
C11_Witness ==
    /\ variant = "server"
    /\ state.roundNumber = 3
    /\ \E a \in alarm : a.round = 2

\* C12 (as claimed): a wake-up armed in round r and delivered when roundNumber
\* is not r changes nothing and starts no round advance.
C12_StaleWakeUpIsNoOp ==
    [][\A r \in fired :
          (variant \in {"server", "part000"} /\ state.roundNumber # r /\ Alarm)
          => UNCHANGED Object]_vars

\* the wake-up of round 1 is still on its way to alarm() of part_000 while the
\* window of round 2 is open
C12_Witness ==
    /\ variant = "part000"
    /\ fired = {1}
    /\ state.roundNumber = 2
    /\ state.phase = "VOTING"
    /\ ~state.isProcessing

\* a round advance is in progress: startRound is suspended at one of its awaits
Advancing == Calls("ai") + Calls("setAlarm") + Calls("catchSetAlarm") > 0

\* C13 (as claimed): the lock is never held with no round advance in
\* progress: it is free again when resolveVotes / startRound has ended,
\* however it ended.
C13_LockHeldOnlyWhileAdvancing ==
    (variant \in {"server", "part000"} /\ Locked) => Advancing

\* part_000 after setAlarm threw in the catch block of startNewRound: the
\* narration never completes and isProcessing stays true
C13_Witness ==
    /\ variant = "part000"
    /\ state.isProcessing
    /\ state.phase = "NARRATING"
    /\ pending = EmptyBag

\* C14 (as claimed): votingDeadline is set exactly when the phase is VOTING.
C14_DeadlineSetOnlyInVoting ==
    variant \in {"server", "agent"} =>
       (state.votingDeadline # {} <=> state.phase = "VOTING")

\* the second round is being narrated and the deadline of the first window is
\* still in the state
C14_Witness ==
    /\ variant = "server"
    /\ state.phase = "NARRATING"
    /\ state.roundNumber = 2
    /\ state.votingDeadline # {}

\* C15 (as claimed): an open window with the lock free has its wake-up armed
\* at votingDeadline, unless the wake-up of this round is already on its way
\* to alarm() or a vote handler has cancelled it to resolve the window; and a
\* wake-up is armed only for an open window, or for the one startRound is
\* about to persist.
C15_WakeUpArmedForOpenWindow ==
    variant \in {"server", "agent"} =>
       /\ (/\ state.phase = "VOTING"
           /\ ~isLocked
           /\ fired # {state.roundNumber}
           /\ Calls("deleteAlarm") = 0)
          => \E a \in alarm : state.votingDeadline = {a.at}
       /\ alarm # {} =>
             \/ state.phase = "VOTING"
             \/ Calls("setAlarm") + Calls("catchSetAlarm") > 0

\* story-agent.ts has ended the game in VICTORY with a wake-up armed
C15_Witness ==
    /\ variant = "agent"
    /\ state.phase = "VICTORY"
    /\ ~isLocked
    /\ alarm # {}

\* C16: roundNumber never decreases; it grows by exactly 1, and only on the
\* step that begins a round advance (the step into NARRATING), once per
\* narration; the step that opens the window leaves it as it is.
C16_RoundNumberCountsNarrations ==
    [][/\ state'.roundNumber >= state.roundNumber
       /\ AdvanceStep => (/\ state'.roundNumber = state.roundNumber + 1
                          /\ state'.phase = "NARRATING")
       /\ (state.phase # "NARRATING" /\ state'.phase = "NARRATING") => AdvanceStep
       /\ (state.phase = "NARRATING" /\ state'.phase # "NARRATING")
          => state'.roundNumber = state.roundNumber]_vars

\* the second window of part_000 is open, two narrations after LOBBY
C16_Witness ==
    /\ variant = "part000"
    /\ state.phase = "VOTING"
    /\ state.roundNumber = 2
    /\ Len(state.messages) = 3

PhaseStep(p, q) == state.phase = p /\ state'.phase = q

\* C17 (as claimed): the phase starts as LOBBY and changes only from LOBBY to
\* NARRATING on an accepted StartGame, from NARRATING to VOTING when the
\* generator call of startRound is over, from VOTING to NARRATING on vote
\* resolution and, in story-agent.ts, from NARRATING to a terminal phase.
C17_PhaseTransitions ==
    /\ state.phase = "LOBBY"
    /\ [][(variant \in {"server", "agent"} /\ state'.phase # state.phase) =>
             \/ /\ PhaseStep("LOBBY", "NARRATING")
                /\ \E c \in Conns : StartGame(c)
             \/ /\ PhaseStep("NARRATING", "VOTING")
                /\ (AiReturns \/ AiFails \/ SetAlarmDone \/ CatchSetAlarmDone)
             \/ /\ PhaseStep("VOTING", "NARRATING")
                /\ (Alarm \/ DeleteAlarmDone)
             \/ /\ variant = "agent"
                /\ state.phase = "NARRATING"
                /\ state'.phase \in {"VICTORY", "GAMEOVER"}
                /\ SetAlarmDone]_vars

\* story-agent.ts has ended the game while a vote handler of an earlier window
\* is still suspended in `await deleteAlarm()`, the lock free
C17_Witness ==
    /\ variant = "agent"
    /\ state.phase \in {"VICTORY", "GAMEOVER"}
    /\ ~isLocked
    /\ Calls("deleteAlarm") > 0

\* C18: a message whose body cannot be parsed changes nothing: not the room
\* state, not the lock, not the timer, and no handler is left suspended.
C18_MalformedMessageIsDropped ==
    [][\A c \in Conns : MalformedMessage(c) => UNCHANGED Object]_vars

\* a client is connected while the second round is narrated under the lock
C18_Witness ==
    /\ "b" \in open
    /\ state.phase = "NARRATING"
    /\ Locked
    /\ state.roundNumber = 2

\* the step changes connectedUsers by d and nothing else
OnlyConnectedUsers(d) ==
    /\ state' = [state EXCEPT !.connectedUsers = @ + d]
    /\ UNCHANGED <<isLocked, alarm, pending, winningChoice>>

\* C19: a join adds exactly 1 to connectedUsers, a leave takes exactly 1 off
\* unless it is 0 already; neither changes anything else of the room, takes
\* the lock, touches the timer or starts a resolution, in any phase.
C19_JoinAndLeaveOnlyCount ==
    [][\A c \in Conns :
          /\ onConnect(c) => OnlyConnectedUsers(1)
          /\ onClose(c) => OnlyConnectedUsers(IF state.connectedUsers > 0
                                               THEN 0 - 1 ELSE 0)]_vars

\* a client is still connected while connectedUsers is 0 already, a window
\* open (story-agent.ts, after startRound wrote back its snapshot of the state)
C19_Witness ==
    /\ open # {}
    /\ state.connectedUsers = 0
    /\ state.phase = "VOTING"
    /\ ~Locked

\* C20 (as claimed): the keys of currentVotes are exactly "1", "2" and "3".
C20_TallyKeysAreTheOptions ==
    DOMAIN state.currentVotes = Options

\* a vote for "4" has been counted in an open window
C20_Witness ==
    /\ state.phase = "VOTING"
    /\ "4" \in DOMAIN state.currentVotes
    /\ state.currentVotes["4"] = 1

\* C21 (as claimed): the counts of currentVotes add up to connectedUsers at
\* most.
C21_TallyWithinConnected ==
    SumVotes(state.currentVotes) <= state.connectedUsers

\* a vote is counted in the open window of server.ts and nobody is connected
\* any more, no handler suspended
C21_Witness ==
    /\ variant = "server"
    /\ state.phase = "VOTING"
    /\ SumVotes(state.currentVotes) = 1
    /\ state.connectedUsers = 0
    /\ open = {}
    /\ pending = EmptyBag

\* C22 (as claimed): with the lock free, the vote that reaches full turnout
\* goes on to resolve the window whether or not deleteAlarm succeeds, and a
\* wake-up of that window delivered after it was resolved begins no further
\* round advance.
C22_ResolutionWithoutCancellation ==
    [][/\ \A c \in Conns :
             (/\ variant \in {"server", "part000"}
              /\ state.phase = "VOTING"
              /\ ~Locked
              /\ state.connectedUsers > 0
              /\ CountedBy(c)
              /\ Len(state'.votedUsers) >= state.connectedUsers)
             => Calls("deleteAlarm")' = Calls("deleteAlarm") + 1
       /\ \A r \in fired :
             (variant \in {"server", "part000"} /\ state.roundNumber > r /\ Alarm)
             => ~AdvanceStep]_vars

\* the only client of server.ts has voted in a generated window, the wake-up
\* is still armed, the lock is free and no handler is left to resolve the votes
C22_Witness ==
    /\ variant = "server"
    /\ state.phase = "VOTING"
    /\ LastMessage(state).content = Story
    /\ open = {"a"}
    /\ state.connectedUsers = 1
    /\ state.votedUsers = <<"a">>
    /\ ~isLocked
    /\ pending = EmptyBag
    /\ alarm # {}
    /\ fired = {}

TerminalPhases == {"GAMEOVER", "VICTORY"}

\* C23 (as claimed): once story-agent.ts is in GAMEOVER or VICTORY, no step
\* changes phase, roundNumber, currentVotes or messages, and no generator
\* call is made.
C23_TerminalPhaseIsFinal ==
    [][(variant = "agent" /\ state.phase \in TerminalPhases) =>
          /\ state'.phase = state.phase
          /\ state'.roundNumber = state.roundNumber
          /\ state'.currentVotes = state.currentVotes
          /\ state'.messages = state.messages
          /\ AiCalls' = 0]_vars

\* the party of story-agent.ts is dead, a client is connected and a wake-up is
\* on its way to alarm()
C23_Witness ==
    /\ variant = "agent"
    /\ state.phase = "GAMEOVER"
    /\ state.partyStats.hp = 0
    /\ open # {}
    /\ fired # {}

\* an event whose sender is client c
SentBy(c) ==
    \/ onConnect(c)
    \/ onClose(c)
    \/ StartGame(c)
    \/ \E choice \in Choices : Vote(c, choice)

\* C24 (as claimed): an event sent by a client of one room code leaves the
\* state that a connected client of another room code observes unchanged.
C24_RoomsAreIsolated ==
    [][\A c \in Conns : \A d \in open :
          (roomCode[c] # roomCode[d] /\ SentBy(c)) => state' = state]_vars

\* clients of two room codes are connected and a voting window is open
C24_Witness ==
    /\ roomCode["a"] # roomCode["b"]
    /\ open = {"a", "b"}
    /\ state.phase = "VOTING"
    /\ state.connectedUsers = 2
    /\ Len(state.votedUsers) = 1

\* C25 (as claimed): the room never rests in NARRATING with the lock released:
\* while the phase is NARRATING a round advance holds the lock or has a call
\* outstanding that will move the room on.
C25_NarratingIsLeft ==
    state.phase = "NARRATING" => (Locked \/ Advancing)

\* story-agent.ts waits for the generator in round 1 with a client connected
C25_Witness ==
    /\ variant = "agent"
    /\ state.phase = "NARRATING"
    /\ state.roundNumber = 1
    /\ isLocked
    /\ AiCalls = 1
    /\ open # {}

\* C26 (as claimed): an open voting window always has something under way that
\* will close it without any vote: a wake-up armed or on its way to alarm(),
\* or a handler that is suspended and will resume.
C26_WindowWillClose ==
    state.phase = "VOTING" => (alarm # {} \/ fired # {} \/ pending # EmptyBag)

\* nobody has voted in the window of server.ts and its wake-up is on its way
C26_Witness ==
    /\ variant = "server"
    /\ state.phase = "VOTING"
    /\ state.votedUsers = <<>>
    /\ SumVotes(state.currentVotes) = 0
    /\ ~isLocked
    /\ fired # {}

\* C27 (as claimed): while a generator call is outstanding the persisted state
\* has phase NARRATING, a tally of zeros and no voters; this holds from the
\* step that makes the call.
C27_NarratingWhileGenerating ==
    AiCalls > 0 =>
        /\ state.phase = "NARRATING"
        /\ state.currentVotes = ZeroVotes
        /\ state.votedUsers = <<>>

\* server.ts resolved a window in which a vote was cast and waits for the
\* generator with two clients connected
C27_Witness ==
    /\ variant = "server"
    /\ AiCalls = 1
    /\ state.roundNumber = 2
    /\ winningChoice = {"1"}
    /\ open = {"a", "b"}

\* C28 (as claimed): at most one round advance is in progress: a room never
\* has two generator calls outstanding, and the generator is called only when
\* no startRound is between its generator call and the end of its arming.
C28_OneAdvanceAtATime ==
    /\ [](Calls("ai") + Calls("setAlarm") + Calls("catchSetAlarm") <= 1)
    /\ [][AiCalls' > AiCalls => ~Advancing]_vars

\* server.ts waits for the generator while a vote handler of the window
\* before is still suspended on deleteAlarm
C28_Witness ==
    /\ variant = "server"
    /\ AiCalls = 1
    /\ Calls("deleteAlarm") = 1
    /\ isLocked

\* C29 (as claimed): a vote handler that was suspended on deleteAlarm in round
\* r and resumes when roundNumber is no longer r changes nothing (server.ts and
\* part_000).
C29_StaleVoteHandlerIsNoOp ==
    [][\A k \in Waiting("deleteAlarm") :
          (/\ variant \in {"server", "part000"}
           /\ state.roundNumber # k.round
           /\ ResumesVote(k))
          => UNCHANGED <<state, isLocked, alarm, winningChoice>>]_vars

\* a later window is open and unlocked while a vote handler of an earlier round
\* is still suspended on deleteAlarm
C29_Witness ==
    /\ variant \in {"server", "part000"}
    /\ state.phase = "VOTING"
    /\ ~Locked
    /\ \E k \in Waiting("deleteAlarm") : k.round < state.roundNumber

\* C30 (as claimed): in server.ts and part_000 the step that persists phase
\* VOTING comes after the arming of the new window's wake-up: when the window
\* opens no setAlarm call is outstanding and the wake-up is armed for the
\* window's deadline.
C30_ArmedBeforeVoting ==
    [][(/\ variant \in {"server", "part000"}
        /\ state.phase # "VOTING"
        /\ state'.phase = "VOTING")
       => /\ Calls("setAlarm")' + Calls("catchSetAlarm")' = 0
          /\ \E a \in alarm' : state'.votingDeadline = {a.at}]_vars

\* the generator failed in round 1 of server.ts: the fallback window is open
\* and the setAlarm call of the catch block has not returned
C30_Witness ==
    /\ variant = "server"
    /\ state.phase = "VOTING"
    /\ state.roundNumber = 1
    /\ LastMessage(state).content = Fallback
    /\ state.votedUsers = <<>>
    /\ Calls("catchSetAlarm") = 1

IsPrefix(s, t) ==
    /\ Len(s) <= Len(t)
    /\ \A i \in 1..Len(s) : s[i] = t[i]

\* C31: across every step the messages of the state before are a prefix of
\* the messages of the state after: no turn is removed or rewritten.
C31_HistoryIsAppendOnly ==
    [][IsPrefix(state.messages, state'.messages)]_vars

\* the second window is open: the history holds the system prompt and the
\* narrator turns of two rounds at least
C31_Witness ==
    /\ state.phase = "VOTING"
    /\ state.roundNumber = 2
    /\ Len(state.messages) >= 3
    /\ LastMessage(state).role = "assistant"

\* the history holds, after the system prompt, one user turn and one narrator
\* turn for each of n rounds, the first user turn being the start sentinel
TurnPairs(messages, n) ==
    /\ Len(messages) = 1 + 2 * n
    /\ \A i \in 1..n : /\ messages[2 * i].role = "user"
                       /\ messages[2 * i + 1].role = "assistant"
    /\ n >= 1 => messages[2].content = Begin

\* C32 (as claimed): in server.ts and story-agent.ts, whenever no round
\* advance is in progress, every round begun so far has added to messages its
\* user turn followed by exactly one narrator turn, whether the generator
\* succeeded or failed.
C32_EachRoundAddsTwoTurns ==
    (variant \in {"server", "agent"} /\ ~Advancing)
       => TurnPairs(state.messages, state.roundNumber)

\* the generator failed in round 1 of server.ts and the catch block has
\* finished: the fallback window is open and unlocked
C32_Witness ==
    /\ variant = "server"
    /\ state.roundNumber = 1
    /\ state.phase = "VOTING"
    /\ LastMessage(state).content = Fallback
    /\ ~isLocked
    /\ ~Advancing
    /\ alarm # {}

\* C33 (as claimed): a Vote delivered while connectedUsers is 0 triggers no
\* early resolution: it cancels no wake-up and begins no round advance.
C33_NoEarlyResolutionWithoutParticipants ==
    [][\A c \in Conns :
          (state.connectedUsers = 0 /\ \E choice \in Choices : Vote(c, choice))
          => /\ Calls("deleteAlarm")' = Calls("deleteAlarm")
             /\ alarm' = alarm
             /\ ~AdvanceStep]_vars

\* a window is open and unlocked, a client is connected and can vote, and
\* connectedUsers is 0
C33_Witness ==
    /\ state.phase = "VOTING"
    /\ state.connectedUsers = 0
    /\ open # {}
    /\ state.votedUsers = <<>>
    /\ ~Locked
    /\ alarm # {}

\* C34 (as claimed): joins and leaves delivered during a round advance are not
\* lost: connectedUsers changes only in the steps of onConnect and onClose, so
\* the steps that complete a round leave the count as the joins and leaves
\* made it.
C34_JoinsAndLeavesAreKept ==
    [][state'.connectedUsers # state.connectedUsers
       => \E c \in Conns : onConnect(c) \/ onClose(c)]_vars

\* story-agent.ts waits for setAlarm with the state it will persist in hand,
\* and a join or leave has changed connectedUsers since
C34_Witness ==
    /\ variant = "agent"
    /\ state.phase = "NARRATING"
    /\ \E w \in Waiting("setAlarm") : \E f \in w.snap :
          f.connectedUsers # state.connectedUsers

\* the first key, in the order of Object.entries, among those holding the
\* highest count
LowestAtMax(votes) ==
    LET tied == {i \in 1..Len(KeyOrder) :
                    /\ KeyOrder[i] \in DOMAIN votes
                    /\ votes[KeyOrder[i]] = MaxOf(votes)}
    IN KeyOrder[CHOOSE i \in tied : \A j \in tied : i <= j]

\* C35: in server.ts and part_000 the winner of a resolution is a function of
\* currentVotes: "1" when no vote was cast, otherwise the lowest-numbered of
\* the choices at the highest count.
C35_WinnerIsFirstMax ==
    [][(variant \in {"server", "part000"} /\ ResolveStep)
       => winningChoice' = {IF SumVotes(state.currentVotes) = 0
                            THEN "1"
                            ELSE LowestAtMax(state.currentVotes)}]_vars

\* "1" and "2" are tied in part_000 and the handler of the last vote is about
\* to resolve the window
C35_Witness ==
    /\ variant = "part000"
    /\ state.phase = "VOTING"
    /\ state.currentVotes["1"] = 1
    /\ state.currentVotes["2"] = 1
    /\ ~Locked
    /\ Calls("deleteAlarm") = 1

\* C36 (as claimed): every step of server.ts that opens a voting window, after
\* a generator failure as well, persists a votingDeadline VOTING_DURATION_MS
\* after the present instant and leaves the wake-up armed for that instant.
C36_WindowLastsVotingDuration ==
    [][(/\ variant = "server"
        /\ state.phase # "VOTING"
        /\ state'.phase = "VOTING")
       => /\ state'.votingDeadline = {Now + VOTING_DURATION_MS}
          /\ \E a \in alarm' : a.at = Now + VOTING_DURATION_MS]_vars

\* the generator failed in round 2 of server.ts and the fallback window has
\* just been opened
C36_Witness ==
    /\ variant = "server"
    /\ state.phase = "VOTING"
    /\ state.roundNumber = 2
    /\ LastMessage(state).content = Fallback
    /\ state.votingDeadline = {Now + FALLBACK_DELAY_MS}

\* C37: in story-agent.ts the party is alive whenever the window is open, and
\* a narration that brings hp to 0 ends in GAMEOVER even when it carries
\* [[VICTORY]]: hp > 0 in every state with phase VOTING or VICTORY.
C37_AliveWhileVoting ==
    (variant = "agent" /\ state.phase \in {"VOTING", "VICTORY"})
       => state.partyStats.hp > 0

\* a narration of round 2 that also paid gold brought hp to 0: GAMEOVER
C37_Witness ==
    /\ variant = "agent"
    /\ state.phase = "GAMEOVER"
    /\ state.roundNumber = 2
    /\ state.partyStats.hp = 0
    /\ state.partyStats.gold > 0

\* C38 (as claimed): when story-agent.ts has processed the narration of a
\* round whose number is a positive multiple of 5 and opens the next window,
\* the party has levelled up: level + 1, maxHp + 20, hp = maxHp.
C38_LevelUpEveryFiveRounds ==
    [][(/\ variant = "agent"
        /\ state.roundNumber > 0
        /\ state.roundNumber % 5 = 0
        /\ state.phase = "NARRATING"
        /\ state'.phase = "VOTING")
       => /\ state'.partyStats.level = state.partyStats.level + 1
          /\ state'.partyStats.maxHp = state.partyStats.maxHp + 20
          /\ state'.partyStats.hp = state'.partyStats.maxHp]_vars

\* the window of round 5 is open
C38_Witness ==
    /\ variant = "agent"
    /\ state.roundNumber = 5
    /\ state.phase = "VOTING"
    /\ ~isLocked

\* C39: in story-agent.ts 0 <= hp <= maxHp and gold >= 0 in every state, for
\* narrations with several HP and GOLD tags, positive and negative.
C39_StatsWithinRange ==
    variant = "agent" =>
       /\ 0 <= state.partyStats.hp
       /\ state.partyStats.hp <= state.partyStats.maxHp
       /\ state.partyStats.gold >= 0

\* damage, healing and damage again left hp 10; two rewards and a payment
\* left gold 20
C39_Witness ==
    /\ variant = "agent"
    /\ state.partyStats.hp = 10
    /\ state.partyStats.gold = 20
====
